---- MODULE Spec2Model ----
(***************************************************************************)
(* Morpheus: a credential gatekeeper.  POST /request looks a credential up *)
(* in the vault, auto-approves it or asks the approver on Discord, writes  *)
(* an audit log entry and stores the credential for a one-time pickup;     *)
(* POST /pickup redeems a pickup token.                                    *)
(*                                                                         *)
(* Python strings that the code lower-cases, strips or splits are modelled *)
(* as sequences of one-character strings; all other values are atoms.      *)
(***************************************************************************)
EXTENDS Integers, Sequences, FiniteSets, TLC

\* ------------------------------------------------------------------ bounds
NReq == 1
NWait == 2
NPick == 1
MaxTokens == 2
MaxTime == 2
NCall == 2
MaxKeys == 2
MaxFieldLen == 4
MaxScopeLen == 2
MaxMsgIds == 3
MaxFutures == 3

\* seconds between two readings of the clock
TimeUnit == 300

\* ------------------------------------------------------- program constants
PickupTTL == 300

\* ------------------------------------------------------------------ strings
UpperChars == <<"A","B","C","D","E","F","G","H","I","J","K","L","M",
                "N","O","P","Q","R","S","T","U","V","W","X","Y","Z">>
LowerChars == <<"a","b","c","d","e","f","g","h","i","j","k","l","m",
                "n","o","p","q","r","s","t","u","v","w","x","y","z">>

LowerChar(c) ==
  IF \E i \in 1..26 : UpperChars[i] = c
  THEN LowerChars[CHOOSE i \in 1..26 : UpperChars[i] = c]
  ELSE c

\* str.lower()
Lower(s) == [i \in 1..Len(s) |-> LowerChar(s[i])]

IsSpace(c) == c = " "

RECURSIVE LStrip(_)
LStrip(s) == IF s # <<>> /\ IsSpace(Head(s)) THEN LStrip(Tail(s)) ELSE s

RECURSIVE RStrip(_)
RStrip(s) ==
  IF s # <<>> /\ IsSpace(s[Len(s)]) THEN RStrip(SubSeq(s, 1, Len(s) - 1)) ELSE s

\* str.strip()
Strip(s) == RStrip(LStrip(s))

\* str.split(","): the pieces between the commas, empty pieces included
RECURSIVE SplitAcc(_, _, _)
SplitAcc(s, cur, acc) ==
  IF s = <<>> THEN Append(acc, cur)
  ELSE IF Head(s) = "," THEN SplitAcc(Tail(s), <<>>, Append(acc, cur))
  ELSE SplitAcc(Tail(s), Append(cur, Head(s)), acc)

SplitComma(s) == SplitAcc(s, <<>>, <<>>)

\* the case-insensitive substring search of `bw list items --search`
Contains(s, sub) ==
  \E i \in 0..(Len(s) - Len(sub)) : SubSeq(s, i + 1, i + Len(sub)) = sub

SeqRange(s) == {s[i] : i \in 1..Len(s)}

\* ----------------------------------------------------------- dictionaries
EmptyDict == <<>>

Put(d, k, v) == [x \in (DOMAIN d) \cup {k} |-> IF x = k THEN v ELSE d[x]]

\* dict keys and literals of the code
k_service == <<"s","e","r","v","i","c","e">>
k_scope == <<"s","c","o","p","e">>
k_scopes == <<"s","c","o","p","e","s">>
k_name == <<"n","a","m","e">>
k_notes == <<"n","o","t","e","s">>
k_username == <<"u","s","e","r","n","a","m","e">>
k_password == <<"p","a","s","s","w","o","r","d">>
k_uris == <<"u","r","i","s">>
k_cardholderName == <<"c","a","r","d","h","o","l","d","e","r","N","a","m","e">>
k_number == <<"n","u","m","b","e","r">>
k_expMonth == <<"e","x","p","M","o","n","t","h">>
k_expYear == <<"e","x","p","Y","e","a","r">>
k_code == <<"c","o","d","e">>
k_brand == <<"b","r","a","n","d">>
k_auto_approve == <<"a","u","t","o","_","a","p","p","r","o","v","e">>
s_true == <<"t","r","u","e">>

\* --------------------------------------------------------------- the vault
\* What `bw list items` holds: three items, as the JSON objects of the CLI.
NoCard == [cardholderName |-> "None", number |-> "None", expMonth |-> "None",
           expYear |-> "None", code |-> "None", brand |-> "None"]
NoLogin == [username |-> "None", password |-> "None", uris |-> <<>>]

VaultItems == <<
  [name |-> <<"G","h">>, type |-> 1, notes |-> "notes_gh",
   login |-> [username |-> "user_gh", password |-> "pw_gh", uris |-> <<"uri_gh">>],
   card |-> NoCard,
   fields |-> << [name |-> <<"S","c","o","p","e","s">>,
                  value |-> <<"R","e","a","d",","," ","w">>],
                 [name |-> <<"e","n","v">>, value |-> <<"p","r","d">>] >>],
  [name |-> <<"c","i">>, type |-> 1, notes |-> "None",
   login |-> [username |-> "user_ci", password |-> "pw_ci", uris |-> <<>>],
   card |-> NoCard,
   fields |-> << [name |-> <<"s","c","o","p","e">>, value |-> <<"r">>],
                 [name |-> <<"A","u","t","o","_","A","p","p","r","o","v","e">>,
                  value |-> <<"T","R","U","E">>] >>],
  [name |-> <<"d","b">>, type |-> 3, notes |-> "notes_db",
   login |-> NoLogin,
   card |-> [cardholderName |-> "holder_db", number |-> "4111", expMonth |-> "12",
             expYear |-> "2030", code |-> "123", brand |-> "visa"],
   fields |-> << [name |-> <<"a","u","t","o","_","a","p","p","r","o","v","e">>,
                  value |-> <<"y","e","s">>],
                 [name |-> <<"s","c","o","p","e">>, value |-> <<"r",","," ">>] >>]
>>

\* (service, scope) pairs a client may send to POST /request
RequestInputs == {
  [service |-> <<"g","h">>, scope |-> <<"R","E","A","D">>],
  [service |-> <<"g","h">>, scope |-> <<"a","d","m">>],
  [service |-> <<"z","z">>, scope |-> <<"r">>],
  [service |-> <<"c","i">>, scope |-> <<"r">>],
  [service |-> <<"d","b">>, scope |-> <<"R">>] }

NoArgs == [service |-> <<>>, scope |-> <<>>]

\* bw list items --search <service>
SearchItems(service) ==
  SelectSeq(VaultItems, LAMBDA it : Contains(Lower(it.name), Lower(service)))

\* for item in items: if item_name.lower() == service.lower(): ... break
ExactMatches(items, service) ==
  SelectSeq(items, LAMBDA it : Lower(it.name) = Lower(service))

\* the first field named "scopes" or "scope": its value, split at the commas
RawScopes(custom_fields) ==
  LET hits == SelectSeq(custom_fields,
                        LAMBDA f : Lower(f.name) \in {k_scopes, k_scope})
  IN IF hits = <<>> THEN <<>> ELSE SplitComma(hits[1].value)

\* [s.strip().lower() for s in allowed_scopes if s.strip()]
AllowedScopes_noStrip(custom_fields) ==
  LET raw == RawScopes(custom_fields)
      kept == SelectSeq(raw, LAMBDA s : Strip(s) # <<>>)
  IN [i \in 1..Len(kept) |-> Lower(kept[i])]
AllowedScopes(custom_fields) ==
  LET raw == RawScopes(custom_fields)
      kept == SelectSeq(raw, LAMBDA s : Strip(s) # <<>>)
  IN [i \in 1..Len(kept) |-> Lower(Strip(kept[i]))]

\* if scope.lower() not in allowed_scopes: return None
ScopeCheck_ignore(scope, allowed) == TRUE
ScopeCheck(scope, allowed) == Lower(scope) \in SeqRange(allowed)

BaseData(item, service, scope) ==
  LET d0 == Put(Put(Put(Put(EmptyDict, k_service, service), k_scope, scope),
                    k_name, item.name), k_notes, item.notes)
  IN IF item.type = 3
     THEN Put(Put(Put(Put(Put(Put(d0,
            k_cardholderName, item.card.cardholderName),
            k_number, item.card.number),
            k_expMonth, item.card.expMonth),
            k_expYear, item.card.expYear),
            k_code, item.card.code),
            k_brand, item.card.brand)
     ELSE Put(Put(Put(d0,
            k_username, item.login.username),
            k_password, item.login.password),
            k_uris, item.login.uris)

\* the first field named auto_approve gives credential_data["auto_approve"]
WithAutoApprove(d, custom_fields) ==
  LET hits == SelectSeq(custom_fields, LAMBDA f : Lower(f.name) = k_auto_approve)
  IN IF hits = <<>> THEN d ELSE Put(d, k_auto_approve, hits[1].value)

internal_fields == {k_scopes, k_scope, k_auto_approve}

\* the custom fields that are not control fields, added in order
RECURSIVE WithCustomFields(_, _)
WithCustomFields(d, custom_fields) ==
  IF custom_fields = <<>> THEN d
  ELSE LET f == Head(custom_fields)
       IN WithCustomFields(
            IF Lower(f.name) \notin internal_fields THEN Put(d, f.name, f.value) ELSE d,
            Tail(custom_fields))

NotFound == [found |-> FALSE, data |-> EmptyDict]

\* VaultManager.get_credential once the session is usable and the search answered
Lookup(service, scope) ==
  LET items == SearchItems(service)
      exact == ExactMatches(items, service)
  IN IF items = <<>> THEN NotFound
     ELSE IF exact = <<>> THEN NotFound
     ELSE LET item == exact[1]
          IN IF ~ScopeCheck(scope, AllowedScopes(item.fields)) THEN NotFound
             ELSE [found |-> TRUE,
                   data |-> WithCustomFields(
                              WithAutoApprove(BaseData(item, service, scope), item.fields),
                              item.fields)]

\* str(credential.get("auto_approve", "")).lower() == "true"
AutoApprove(data) ==
  k_auto_approve \in DOMAIN data /\ Lower(data[k_auto_approve]) = s_true

\* {k: v for k, v in credential.items() if k != "auto_approve"}
CleanCredential_keep(data) == data
CleanCredential(data) == [k \in (DOMAIN data) \ {k_auto_approve} |-> data[k]]

\* ------------------------------------------------------------------- state
\* the POST /request handlers run in full, the request_approval calls run
\* side by side, and the requests of the model: all of them
Handlers == 1..NReq
Waiters == 1..NWait
Reqs == Handlers \cup Waiters
Picks == 1..NPick
Tokens == 1..MaxTokens
\* a pickup body may also carry a token that was never issued
NoToken == 0
\* a message of the channel that is no approval prompt
OtherMessage == 0

approver_id == "approver_id"
Approver == [id |-> approver_id, bot |-> FALSE]
Stranger == [id |-> "stranger_id", bot |-> FALSE]
BotUser == [id |-> "bot_id", bot |-> TRUE]
Users == {Approver, Stranger, BotUser}

\* str(reaction.emoji): the check mark, the cross mark, anything else
Emojis == {"check", "cross", "thumbsup"}

\* the get_credential calls made on the one VaultManager
Calls == 1..NCall
\* the session keys `bw login --raw` and `bw unlock --raw` print
Keys == 1..MaxKeys
\* session_key is None
NoKey == 0
\* unlock() has not returned yet; get_credential has returned nothing yet
NoOut == [unlock |-> "none", credential |-> NotFound]
\* the (service, scope) of the get_credential calls made on the session: a
\* pair the vault holds (what the lookup does with other pairs is Lookup)
LookupInputs == {in \in RequestInputs :
                   in.service = <<"g","h">> /\ in.scope = <<"R","E","A","D">>}
\* status_data.get("status", "unknown")
Statuses == {"unauthenticated", "locked", "unlocked", "unknown"}

NoField == [name |-> <<>>, value |-> <<>>]

\* no endpoint has called list_services; the endpoint has not answered
NoHttp == [endpoint |-> "none", api_key |-> "none"]
NoAnswer == [status |-> 0, vault |-> "none", services |-> {}]

\* no registration was made
NoRegistration == [before |-> EmptyDict, key |-> 0, future |-> 0,
                   after |-> EmptyDict, outcome |-> "none"]

VARIABLES
  reqPc,            \* where each POST /request handler stands
  reqArgs,          \* request_data.service, request_data.scope
  credential,       \* the handler's local `credential`
  approved,         \* the handler's local `approved`
  response,         \* what the handler answered
  message,          \* whether the approval prompt of the request is in the channel
  pending_requests, \* bot.pending_requests: the message ids that are keys
  future,           \* the asyncio.Future made for each prompt
  log_calls,        \* the log_request calls whose body ran, per request id
  credential_store, \* _credential_store: token -> entry
  nextToken,        \* the next fresh uuid4 pickup token
  now,              \* time.time()
  pickPc,           \* where each POST /pickup handler stands
  pickTok,          \* body.get("token", "")
  pickResult,       \* what the pickup handler answered
  reaction_errors,  \* history: some on_reaction_add call ended in an exception
  observed,         \* history: what each request_approval saw its wait end with
  acceptedInTime,   \* history: the approver's check arrived with the prompt up, before the timeout
  outsiderReacted,  \* history: someone else, or a bot, reacted to a registered prompt
  faulted,          \* history: a Discord call made for the request failed
  issuedBy,         \* history: the request that stored each token
  redeemed,         \* history: how often each token was handed out
  vaultFailed,      \* history: get_credential of the request ended on a vault failure
  session_key,      \* vault_manager.session_key
  logged_in,        \* vault_manager._logged_in
  nextKey,          \* the next session key the vault tool hands out
  callPc,           \* where each get_credential call stands
  callArgs,         \* service, scope of the call
  callKey,          \* the --session argument of the call's list command
  callOut,          \* what unlock() and get_credential returned to the call
  callIssued,       \* history: the vault commands the call has run
  callFailed,       \* history: the commands of the call that failed
  callAfterFailure, \* history: the call began after an unlock() had returned False
  scopeField,       \* the custom field of an item under the scope check
  scopeReq,         \* the requested scope under the scope check
  scopeAuth,        \* what the scope check answered
  processes,        \* the vault commands whose process outlived the step that ran it
  callHttp,         \* the endpoint a list_services call serves and the X-API-Key sent
  callAnswer,       \* what the endpoint of a list_services call answered
  registration      \* a registration in pending_requests: the dict before and after

vars == <<reqPc, reqArgs, credential, approved, response, message, pending_requests,
          future, log_calls, credential_store, nextToken, now, pickPc, pickTok,
          pickResult, reaction_errors, observed, acceptedInTime, outsiderReacted,
          faulted, issuedBy, redeemed, vaultFailed, session_key, logged_in, nextKey,
          callPc, callArgs, callKey, callOut, callIssued, callFailed,
          callAfterFailure, scopeField, scopeReq, scopeAuth, processes, callHttp,
          callAnswer, registration>>

reqVars == <<reqPc, reqArgs, credential, approved, response, log_calls, faulted,
            vaultFailed>>
botVars == <<message, pending_requests, future, observed, acceptedInTime, reaction_errors,
            outsiderReacted>>
storeVars == <<credential_store, nextToken, issuedBy>>
pickVars == <<pickPc, pickTok, pickResult, redeemed>>
sessionVars == <<session_key, logged_in, nextKey>>
callVars == <<callPc, callArgs, callKey, callOut, callIssued, callFailed,
             callAfterFailure, callHttp, callAnswer>>
vaultVars == <<sessionVars, callVars, processes>>
scopeVars == <<scopeField, scopeReq, scopeAuth>>
regVars == <<registration>>

NoResponse == [status |-> 0, kind |-> "none", token |-> NoToken]
NoPickResult == [status |-> 0, credential |-> EmptyDict]

Init ==
  /\ reqPc = [r \in Reqs |-> "idle"]
  /\ reqArgs = [r \in Reqs |-> NoArgs]
  /\ credential = [r \in Reqs |-> NotFound]
  /\ approved = [r \in Reqs |-> FALSE]
  /\ response = [r \in Reqs |-> NoResponse]
  /\ message = [r \in Reqs |-> FALSE]
  /\ pending_requests = {}
  /\ future = [r \in Reqs |-> "none"]
  /\ log_calls = [r \in Reqs |-> <<>>]
  /\ credential_store = EmptyDict
  /\ nextToken = 1
  /\ now = 0
  /\ pickPc = [p \in Picks |-> "idle"]
  /\ pickTok = [p \in Picks |-> NoToken]
  /\ pickResult = [p \in Picks |-> NoPickResult]
  /\ reaction_errors = FALSE
  /\ observed = [r \in Reqs |-> <<>>]
  /\ acceptedInTime = [r \in Reqs |-> FALSE]
  /\ outsiderReacted = FALSE
  /\ faulted = [r \in Reqs |-> FALSE]
  /\ issuedBy = [t \in Tokens |-> 0]
  /\ redeemed = [t \in Tokens |-> 0]
  /\ vaultFailed = [r \in Reqs |-> FALSE]
  /\ session_key = NoKey
  /\ logged_in = FALSE
  /\ nextKey = 1
  /\ callPc = [c \in Calls |-> "idle"]
  /\ callArgs = [c \in Calls |-> NoArgs]
  /\ callKey = [c \in Calls |-> NoKey]
  /\ callOut = [c \in Calls |-> NoOut]
  /\ callIssued = [c \in Calls |-> {}]
  /\ callFailed = [c \in Calls |-> {}]
  /\ callAfterFailure = [c \in Calls |-> FALSE]
  /\ scopeField = NoField
  /\ scopeReq = <<>>
  /\ scopeAuth = "none"
  /\ processes = {}
  /\ callHttp = [c \in Calls |-> NoHttp]
  /\ callAnswer = [c \in Calls |-> NoAnswer]
  /\ registration = NoRegistration

\* ------------------------------------------------------------ POST /request
\* The handler is entered with a validated body.
RequestStart(r) ==
  /\ reqPc[r] = "idle"
  /\ \E in \in RequestInputs : reqArgs' = [reqArgs EXCEPT ![r] = in]
  /\ reqPc' = [reqPc EXCEPT ![r] = "get_credential"]
  /\ UNCHANGED <<credential, approved, response, log_calls, faulted, vaultFailed>>
  /\ UNCHANGED <<botVars, storeVars, now, pickVars, vaultVars, scopeVars, regVars>>

\* What get_credential returns.  vaultOK: unlock() returned True and the list
\* command answered (SpecVault has the steps); otherwise the function logs
\* and returns None.
LookupOutcome_ignoreFailure(vaultOK, service, scope) == Lookup(service, scope)
LookupOutcome(vaultOK, service, scope) ==
  IF vaultOK THEN Lookup(service, scope) ELSE NotFound

\* if credential is None: return CredentialResponse(approved=False,
\* message="Service or scope not found, or scope not allowed")
NotFoundAnswer_tellsApart(service, scope) ==
  [status |-> 200,
   kind |-> IF ExactMatches(VaultItems, service) = <<>> THEN "not_found" ELSE "scope_not_allowed",
   token |-> NoToken]
NotFoundAnswer(service, scope) ==
  [status |-> 200, kind |-> "not_found", token |-> NoToken]

\* await vault_manager.get_credential(...) returns; the handler runs on to its
\* next await.
GetCredential(r) ==
  /\ reqPc[r] = "get_credential"
  /\ \E vaultOK \in BOOLEAN, channelOK \in BOOLEAN :
       LET cred == LookupOutcome(vaultOK, reqArgs[r].service, reqArgs[r].scope)
       IN /\ credential' = [credential EXCEPT ![r] = cred]
          /\ IF ~cred.found
             THEN /\ response' = [response EXCEPT ![r] =
                                    NotFoundAnswer(reqArgs[r].service, reqArgs[r].scope)]
                  /\ reqPc' = [reqPc EXCEPT ![r] = "done"]
                  /\ UNCHANGED approved
             ELSE IF AutoApprove(cred.data)
             THEN /\ approved' = [approved EXCEPT ![r] = TRUE]
                  /\ reqPc' = [reqPc EXCEPT ![r] = "log"]
                  /\ UNCHANGED response
             \* bot.request_approval: no approval channel, return False
             ELSE IF ~channelOK
             THEN /\ approved' = [approved EXCEPT ![r] = FALSE]
                  /\ reqPc' = [reqPc EXCEPT ![r] = "log"]
                  /\ UNCHANGED response
             ELSE /\ reqPc' = [reqPc EXCEPT ![r] = "send"]
                  /\ UNCHANGED <<approved, response>>
          /\ faulted' = [faulted EXCEPT ![r] = cred.found /\ ~AutoApprove(cred.data) /\ ~channelOK]
          /\ vaultFailed' = [vaultFailed EXCEPT ![r] = ~vaultOK]
  /\ UNCHANGED <<reqArgs, log_calls>>
  /\ UNCHANGED <<botVars, storeVars, now, pickVars, vaultVars, scopeVars, regVars>>

\* ------------------------------------------------- MorpheusBot.request_approval
\* del self.pending_requests[key]
DelItem_clear(registry, key) == {}
DelItem(registry, key) == registry \ {key}

\* What request_approval returns: the handler's `approved`, and on to the log.
ApprovalReturns(r, value) ==
  /\ approved' = [approved EXCEPT ![r] = value]
  /\ reqPc' = [reqPc EXCEPT ![r] = "log"]

\* message = await approval_channel.send(embed=embed); a Discord error is
\* caught by the outer except, which returns False
ApprovalSend(r) ==
  /\ reqPc[r] = "send"
  /\ \E ok \in BOOLEAN :
       /\ faulted' = [faulted EXCEPT ![r] = @ \/ ~ok]
       /\ IF ok
          THEN /\ message' = [message EXCEPT ![r] = TRUE]
               /\ reqPc' = [reqPc EXCEPT ![r] = "add_reaction1"]
               /\ UNCHANGED approved
          ELSE /\ ApprovalReturns(r, FALSE)
               /\ UNCHANGED message
  /\ UNCHANGED <<reqArgs, credential, response, log_calls, vaultFailed>>
  /\ UNCHANGED <<pending_requests, future, observed, acceptedInTime, reaction_errors, outsiderReacted>>
  /\ UNCHANGED <<storeVars, now, pickVars, vaultVars, scopeVars, regVars>>

\* await message.add_reaction(check mark)
AddReaction1(r) ==
  /\ reqPc[r] = "add_reaction1"
  /\ \E ok \in BOOLEAN :
       /\ faulted' = [faulted EXCEPT ![r] = @ \/ ~ok]
       /\ IF ok
          THEN /\ reqPc' = [reqPc EXCEPT ![r] = "add_reaction2"]
               /\ UNCHANGED approved
          ELSE ApprovalReturns(r, FALSE)
  /\ UNCHANGED <<reqArgs, credential, response, log_calls, vaultFailed>>
  /\ UNCHANGED <<botVars, storeVars, now, pickVars, vaultVars, scopeVars, regVars>>

\* await message.add_reaction(cross mark); then the future is made and
\* registered under str(message.id), and the handler waits on it
AddReaction2(r) ==
  /\ reqPc[r] = "add_reaction2"
  /\ \E ok \in BOOLEAN :
       /\ faulted' = [faulted EXCEPT ![r] = @ \/ ~ok]
       /\ IF ok
          THEN /\ future' = [future EXCEPT ![r] = "pending"]
               /\ pending_requests' = pending_requests \cup {r}
               /\ reqPc' = [reqPc EXCEPT ![r] = "waiting"]
               /\ UNCHANGED approved
          ELSE /\ ApprovalReturns(r, FALSE)
               /\ UNCHANGED <<future, pending_requests>>
  /\ UNCHANGED <<reqArgs, credential, response, log_calls, vaultFailed>>
  /\ UNCHANGED <<message, observed, acceptedInTime, reaction_errors, outsiderReacted>>
  /\ UNCHANGED <<storeVars, now, pickVars, vaultVars, scopeVars, regVars>>

\* asyncio.wait_for returns the future's result
WaitReturns(r) ==
  /\ reqPc[r] = "waiting"
  /\ future[r] \in {"true", "false"}
  /\ approved' = [approved EXCEPT ![r] = (future[r] = "true")]
  /\ observed' = [observed EXCEPT ![r] = Append(@, future[r])]
  /\ reqPc' = [reqPc EXCEPT ![r] = "edit_result"]
  /\ UNCHANGED <<reqArgs, credential, response, log_calls, faulted, vaultFailed>>
  /\ UNCHANGED <<message, pending_requests, future, acceptedInTime, reaction_errors, outsiderReacted>>
  /\ UNCHANGED <<storeVars, now, pickVars, vaultVars, scopeVars, regVars>>

\* approval_timeout_seconds elapse with the future unresolved: wait_for
\* cancels the future and raises TimeoutError
WaitTimesOut_noDeadline(r) ==
  /\ reqPc[r] = "waiting"
  /\ FALSE
  /\ UNCHANGED vars
WaitTimesOut(r) ==
  /\ reqPc[r] = "waiting"
  /\ future[r] = "pending"
  /\ future' = [future EXCEPT ![r] = "cancelled"]
  /\ observed' = [observed EXCEPT ![r] = Append(@, "timeout")]
  /\ reqPc' = [reqPc EXCEPT ![r] = "edit_timeout"]
  /\ UNCHANGED <<reqArgs, credential, approved, response, log_calls, faulted, vaultFailed>>
  /\ UNCHANGED <<message, pending_requests, acceptedInTime, reaction_errors, outsiderReacted>>
  /\ UNCHANGED <<storeVars, now, pickVars, vaultVars, scopeVars, regVars>>

\* await message.edit(embed=embed) after a result; return approved.  A Discord
\* error goes to the outer except, which returns False.
EditResult(r) ==
  /\ reqPc[r] = "edit_result"
  /\ \E ok \in BOOLEAN :
       /\ ApprovalReturns(r, IF ok THEN approved[r] ELSE FALSE)
       /\ faulted' = [faulted EXCEPT ![r] = @ \/ ~ok]
  /\ UNCHANGED <<reqArgs, credential, response, log_calls, vaultFailed>>
  /\ UNCHANGED <<botVars, storeVars, now, pickVars, vaultVars, scopeVars, regVars>>

\* await message.edit(embed=embed) after the timeout; then the clean-up and
\* return False.  A Discord error skips the clean-up.
EditTimeout(r) ==
  /\ reqPc[r] = "edit_timeout"
  /\ \E ok \in BOOLEAN :
       /\ pending_requests' = IF ok /\ r \in pending_requests
                               THEN DelItem(pending_requests, r)
                               ELSE pending_requests
       /\ faulted' = [faulted EXCEPT ![r] = @ \/ ~ok]
  /\ ApprovalReturns(r, FALSE)
  /\ UNCHANGED <<reqArgs, credential, response, log_calls, vaultFailed>>
  /\ UNCHANGED <<message, future, observed, acceptedInTime, reaction_errors, outsiderReacted>>
  /\ UNCHANGED <<storeVars, now, pickVars, vaultVars, scopeVars, regVars>>

\* ------------------------------------------------- MorpheusBot.on_reaction_add
\* if user.bot or user.id != settings.discord_approver_id: return
ReactionIgnored_and(user) == user.bot /\ user.id # approver_id
ReactionIgnored(user) == user.bot \/ user.id # approver_id

\* future.set_result raises InvalidStateError unless the future is pending
SetResultRaises(m) == future[m] # "pending"

Messages == {OtherMessage} \cup {r \in Reqs : message[r]}

PromptUp(m) ==
  /\ m \in Reqs
  /\ message[m]
  /\ reqPc[m] \in {"add_reaction1", "add_reaction2", "waiting"}

ReactionAdd(m, user, emoji) ==
  /\ m \in Messages
  /\ LET handled == ~ReactionIgnored(user) /\ m \in pending_requests
         decides == handled /\ emoji \in {"check", "cross"}
         raises == decides /\ SetResultRaises(m)
     IN /\ future' = IF decides /\ ~raises
                     THEN [future EXCEPT ![m] = IF emoji = "check" THEN "true" ELSE "false"]
                     ELSE future
        /\ pending_requests' = IF handled /\ ~raises
                               THEN DelItem(pending_requests, m)
                               ELSE pending_requests
        /\ reaction_errors' = (reaction_errors \/ raises)
  /\ acceptedInTime' =
       IF user = Approver /\ emoji = "check" /\ PromptUp(m)
       THEN [acceptedInTime EXCEPT ![m] = TRUE]
       ELSE acceptedInTime
  /\ outsiderReacted' =
       (outsiderReacted \/ ((user.bot \/ user.id # approver_id) /\ m \in pending_requests))
  /\ UNCHANGED <<message, observed>>
  /\ UNCHANGED <<reqVars, storeVars, now, pickVars, vaultVars, scopeVars, regVars>>

\* ---------------------------------------------------- MorpheusBot.log_request
\* the parameters log_request declares, and those without a default
LogRequestParams == {"service", "scope", "reason", "approved", "request_id", "duration_ms"}
LogRequestRequired == {"service", "scope", "reason", "approved", "request_id"}

\* the keyword arguments of the two calls in request_credential
LogCallKeywords == {"service", "scope", "reason", "approved", "request_id",
                    "duration_ms", "auto_approved"}
ErrorLogCallKeywords == {"service", "scope", "reason", "approved", "request_id",
                         "duration_ms"}

\* Python binds a call's keywords to the parameters or raises TypeError
CallBinds(keywords) ==
  /\ keywords \subseteq LogRequestParams
  /\ LogRequestRequired \subseteq keywords

\* the body of log_request: nothing is sent without a log channel, and an
\* error of the send is caught
LogEntry(flag, sent) == [approved |-> flag, sent |-> sent]

\* ------------------------------------------------------------ the pickup store
\* _credential_store[pickup_token] = {...}
StoreEntry(store, token, data, service, scope, created) ==
  Put(store, token, [credential |-> CleanCredential(data), created |-> created,
                     service |-> service, scope |-> scope])

\* if approved: store the credential, answer with the pickup token; else deny
FinishRequest(r) ==
  IF approved[r]
  THEN /\ nextToken \in Tokens
       /\ credential_store' = StoreEntry(credential_store, nextToken, credential[r].data,
                                         reqArgs[r].service, reqArgs[r].scope, now)
       /\ issuedBy' = [issuedBy EXCEPT ![nextToken] = r]
       /\ nextToken' = nextToken + 1
       /\ response' = [response EXCEPT ![r] =
                         [status |-> 200, kind |-> "approved", token |-> nextToken]]
  ELSE /\ response' = [response EXCEPT ![r] =
                         [status |-> 200, kind |-> "denied", token |-> NoToken]]
       /\ UNCHANGED storeVars

\* RequestLog with the store write ahead of the log call and outside `if approved`
RequestLog_storeUnchecked(r) ==
  /\ reqPc[r] = "log"
  /\ nextToken \in Tokens
  /\ credential_store' = StoreEntry(credential_store, nextToken, credential[r].data,
                                    reqArgs[r].service, reqArgs[r].scope, now)
  /\ issuedBy' = [issuedBy EXCEPT ![nextToken] = r]
  /\ nextToken' = nextToken + 1
  /\ reqPc' = [reqPc EXCEPT ![r] = "except_log"]
  /\ UNCHANGED <<log_calls, response>>
  /\ UNCHANGED <<reqArgs, credential, approved, faulted, vaultFailed>>
  /\ UNCHANGED <<botVars, now, pickVars, vaultVars, scopeVars, regVars>>

\* await bot.log_request(..., auto_approved=auto_approve), then the rest of the
\* try block.  A call that does not bind raises TypeError into the handler's
\* except clause.
RequestLog(r) ==
  /\ reqPc[r] = "log"
  /\ IF CallBinds(LogCallKeywords)
     THEN /\ \E sent \in BOOLEAN :
               log_calls' = [log_calls EXCEPT ![r] = Append(@, LogEntry(approved[r], sent))]
          /\ FinishRequest(r)
          /\ reqPc' = [reqPc EXCEPT ![r] = "done"]
     ELSE /\ reqPc' = [reqPc EXCEPT ![r] = "except_log"]
          /\ UNCHANGED <<log_calls, response, storeVars>>
  /\ UNCHANGED <<reqArgs, credential, approved, faulted, vaultFailed>>
  /\ UNCHANGED <<botVars, now, pickVars, vaultVars, scopeVars, regVars>>

\* except Exception: await bot.log_request(..., approved=False, ...) and
\* raise HTTPException(500)
RequestExceptLog(r) ==
  /\ reqPc[r] = "except_log"
  /\ IF CallBinds(ErrorLogCallKeywords)
     THEN \E sent \in BOOLEAN :
            log_calls' = [log_calls EXCEPT ![r] = Append(@, LogEntry(FALSE, sent))]
     ELSE UNCHANGED log_calls
  /\ response' = [response EXCEPT ![r] =
                    [status |-> 500, kind |-> "error", token |-> NoToken]]
  /\ reqPc' = [reqPc EXCEPT ![r] = "done"]
  /\ UNCHANGED <<reqArgs, credential, approved, faulted, vaultFailed>>
  /\ UNCHANGED <<botVars, storeVars, now, pickVars, vaultVars, scopeVars, regVars>>

\* ------------------------------------------------------------- POST /pickup
\* body = await request.json(); token = body.get("token", "")
PickupStart(p) ==
  /\ pickPc[p] \in {"idle", "done"}
  /\ \E t \in Tokens \cup {NoToken} : pickTok' = [pickTok EXCEPT ![p] = t]
  /\ pickPc' = [pickPc EXCEPT ![p] = "body"]
  /\ pickResult' = [pickResult EXCEPT ![p] = NoPickResult]
  /\ UNCHANGED <<reqVars, botVars, storeVars, now, redeemed, vaultVars, scopeVars, regVars>>

\* data = _credential_store.pop(token)
PopToken_keep(store, token) == store
PopToken(store, token) == [k \in (DOMAIN store) \ {token} |-> store[k]]

\* expired = [k for k, v in store.items() if now - v["created"] > 300]
Expired_atTTL(store, t) == {k \in DOMAIN store : t - store[k].created >= PickupTTL}
Expired(store, t) == {k \in DOMAIN store : t - store[k].created > PickupTTL}

\* for k in expired: del _credential_store[k]
Sweep(store, t) == [k \in (DOMAIN store) \ Expired(store, t) |-> store[k]]

\* if token not in _credential_store: 404; else pop, sweep, return the credential
PickupRun(p) ==
  /\ pickPc[p] = "body"
  /\ IF pickTok[p] \notin DOMAIN credential_store
     THEN /\ pickResult' = [pickResult EXCEPT ![p] =
                              [status |-> 404, credential |-> EmptyDict]]
          /\ UNCHANGED <<credential_store, redeemed>>
     ELSE /\ pickResult' = [pickResult EXCEPT ![p] =
                              [status |-> 200,
                               credential |-> credential_store[pickTok[p]].credential]]
          /\ credential_store' = Sweep(PopToken(credential_store, pickTok[p]), now)
          /\ redeemed' = [redeemed EXCEPT ![pickTok[p]] = @ + 1]
  /\ pickPc' = [pickPc EXCEPT ![p] = "done"]
  /\ UNCHANGED <<reqVars, botVars, nextToken, issuedBy, now, pickTok, vaultVars, scopeVars, regVars>>

\* time.time() advances
Tick ==
  /\ now < MaxTime * TimeUnit
  /\ now' = now + TimeUnit
  /\ UNCHANGED <<reqVars, botVars, storeVars, pickVars, vaultVars, scopeVars, regVars>>

\* -------------------------------------------- POST /request and the Discord bot
Next ==
  \/ \E r \in Handlers : RequestStart(r)
  \/ \E r \in Handlers : GetCredential(r)
  \/ \E r \in Handlers : ApprovalSend(r)
  \/ \E r \in Handlers : AddReaction1(r)
  \/ \E r \in Handlers : AddReaction2(r)
  \/ \E r \in Handlers : WaitReturns(r)
  \/ \E r \in Handlers : WaitTimesOut(r)
  \/ \E r \in Handlers : EditResult(r)
  \/ \E r \in Handlers : EditTimeout(r)
  \/ \E r \in Handlers : RequestLog(r)
  \/ \E r \in Handlers : RequestExceptLog(r)
  \/ \E m \in Handlers \cup {OtherMessage}, u \in Users, e \in Emojis : ReactionAdd(m, u, e)

Spec == Init /\ [][Next]_vars

\* The event loop runs every handler that can go on: a Discord call answers
\* or raises, a resolved future wakes its waiter, the timer of wait_for
\* fires, the log call returns.  Nothing makes anybody react.
Fairness ==
  \A r \in Handlers :
    /\ WF_vars(GetCredential(r))
    /\ WF_vars(ApprovalSend(r))
    /\ WF_vars(AddReaction1(r))
    /\ WF_vars(AddReaction2(r))
    /\ WF_vars(WaitReturns(r))
    /\ WF_vars(WaitTimesOut(r))
    /\ WF_vars(EditResult(r))
    /\ WF_vars(EditTimeout(r))
    /\ WF_vars(RequestLog(r))
    /\ WF_vars(RequestExceptLog(r))

SpecLive == Spec /\ Fairness

\* ------------------------------------------ request_approval side by side
\* The call of request_credential to bot.request_approval taken by itself,
\* for a credential that was found and is not auto-approved; the steps of
\* request_approval follow up to its return (reqPc "log").
ApprovalInputs ==
  {in \in RequestInputs :
     /\ in.service = <<"g","h">>
     /\ Lookup(in.service, in.scope).found
     /\ ~AutoApprove(Lookup(in.service, in.scope).data)}

ApprovalStart(r) ==
  /\ reqPc[r] = "idle"
  /\ \E in \in ApprovalInputs, channelOK \in BOOLEAN :
       /\ reqArgs' = [reqArgs EXCEPT ![r] = in]
       /\ credential' = [credential EXCEPT ![r] = Lookup(in.service, in.scope)]
       /\ faulted' = [faulted EXCEPT ![r] = ~channelOK]
       /\ IF channelOK
          THEN /\ reqPc' = [reqPc EXCEPT ![r] = "send"]
               /\ UNCHANGED approved
          ELSE ApprovalReturns(r, FALSE)
  /\ UNCHANGED <<response, log_calls, vaultFailed>>
  /\ UNCHANGED <<botVars, storeVars, now, pickVars, vaultVars, scopeVars, regVars>>

NextApproval ==
  \/ \E r \in Waiters : ApprovalStart(r)
  \/ \E r \in Waiters : ApprovalSend(r)
  \/ \E r \in Waiters : AddReaction1(r)
  \/ \E r \in Waiters : AddReaction2(r)
  \/ \E r \in Waiters : WaitReturns(r)
  \/ \E r \in Waiters : WaitTimesOut(r)
  \/ \E r \in Waiters : EditResult(r)
  \/ \E r \in Waiters : EditTimeout(r)
  \/ \E m \in Waiters \cup {OtherMessage}, u \in Users, e \in Emojis : ReactionAdd(m, u, e)

SpecApproval == Init /\ [][NextApproval]_vars

\* ------------------------------------------------- the pickup store on its own
\* The store write of request_credential for an approved request, taken by
\* itself: the credential of a lookup that succeeded is stored under a fresh
\* token.  Under Spec no handler gets as far (RequestLog), so the pickup
\* handler is exercised against the entries this step writes.
StoreWrite ==
  /\ nextToken \in Tokens
  /\ \E in \in RequestInputs :
       LET cred == Lookup(in.service, in.scope)
       IN /\ cred.found
          /\ credential_store' = StoreEntry(credential_store, nextToken, cred.data,
                                            in.service, in.scope, now)
  /\ nextToken' = nextToken + 1
  /\ UNCHANGED <<reqVars, botVars, issuedBy, now, pickVars, vaultVars, scopeVars, regVars>>

NextStore ==
  \/ StoreWrite
  \/ \E p \in Picks : PickupStart(p)
  \/ \E p \in Picks : PickupRun(p)
  \/ Tick

SpecStore == Init /\ [][NextStore]_vars


\* ------------------------------------------------------------ VaultManager
\* Every vault command is an await: the steps below are the pieces of
\* get_credential, list_services, unlock, login and _do_unlock between two
\* awaits.  A command answers, fails (non-zero exit, tool unreachable) or runs
\* past its 30 s timeout, as the vault tool decides.
Outcomes == {"ok", "failed", "timeout"}

\* _run_command kills the process it has timed out and reaps it; login() and
\* _do_unlock() start their process themselves and only stop waiting for it
KilledOnTimeout(cmd) == cmd \in {"config", "status", "sync", "list", "logout"}

\* the processes still running once the step that ran `cmd` is over
Leaves(cmd, out) ==
  processes' = IF out = "timeout" /\ ~KilledOnTimeout(cmd)
               THEN processes \cup {cmd}
               ELSE processes

\* the fields class Settings declares, and those login() passes to `bw login`
SettingsFields == {"discord_bot_token", "discord_approval_channel_id",
                   "discord_log_channel_id", "discord_approver_id",
                   "morpheus_api_key", "vaultwarden_url",
                   "vaultwarden_master_password", "approval_timeout_seconds",
                   "host", "port", "log_level"}
LoginSettings == {"vaultwarden_email", "vaultwarden_master_password"}

\* settings.<name> of a name that is no field raises AttributeError
SettingsResolve(names) == names \subseteq SettingsFields

\* the call has run `cmd`, which answered (ok) or failed
Ran(c, cmd, ok) ==
  /\ callIssued' = [callIssued EXCEPT ![c] = @ \cup {cmd}]
  /\ callFailed' = [callFailed EXCEPT ![c] = IF ok THEN @ ELSE @ \cup {cmd}]

\* unlock(), after login: `if self.session_key:` probe it, else _do_unlock()
AfterLogin(key) == IF key # NoKey THEN "sync" ELSE "unlock"

\* login() on the status the tool reports: what it does next
AfterStatus(st, key) ==
  IF st = "unauthenticated" THEN "login"
  ELSE IF st = "locked" THEN AfterLogin(key)
  ELSE IF st = "unlocked" THEN (IF key = NoKey THEN "unlock_in_login" ELSE AfterLogin(key))
  ELSE "return_false"

\* unlock(), when the probe of the cached key has failed
AfterProbeFailure_giveUp == "return_false"
AfterProbeFailure == "unlock"

\* unlock(): self.session_key after the probe of `key`
KeyAfterProbe_drop(ok, key) == NoKey
KeyAfterProbe(ok, key) == IF ok THEN key ELSE NoKey

\* health_check and get_status: list_services returns a list, never None,
\* and raises nothing, so the vault is reported connected
ServicesAnswer(services) == [status |-> 200, vault |-> "connected", services |-> services]

\* unlock() returns False: get_credential logs and returns None, list_services
\* returns [] and the endpoint answers
UnlockReturnsFalse(c) ==
  /\ callOut' = [callOut EXCEPT ![c] = [unlock |-> "false", credential |-> NotFound]]
  /\ callPc' = [callPc EXCEPT ![c] = "done"]
  /\ callAnswer' = [callAnswer EXCEPT ![c] =
                       IF callHttp[c] = NoHttp THEN @ ELSE ServicesAnswer({})]
  /\ UNCHANGED callKey

\* unlock() returns True: get_credential builds the list command with
\* self.session_key as it is now and awaits it
UnlockReturnsTrue(c, key) ==
  /\ callOut' = [callOut EXCEPT ![c] = [unlock |-> "true", credential |-> NotFound]]
  /\ callKey' = [callKey EXCEPT ![c] = key]
  /\ callPc' = [callPc EXCEPT ![c] = "list"]
  /\ UNCHANGED callAnswer

\* the call goes on inside unlock()
UnlockGoesOn(c, pc) ==
  /\ callPc' = [callPc EXCEPT ![c] = pc]
  /\ UNCHANGED <<callKey, callOut, callAnswer>>

\* unlock() is entered: `if not self._logged_in` login() starts with the
\* config command, else the cached key is looked at
UnlockEntry == IF ~logged_in THEN "config" ELSE AfterLogin(session_key)

\* get_credential is entered and calls unlock()
CallStart_singleFlight(c) ==
  /\ callPc[c] = "idle"
  /\ \A d \in Calls \ {c} : callPc[d] \in {"idle", "done"}
  /\ \E in \in LookupInputs : callArgs' = [callArgs EXCEPT ![c] = in]
  /\ callPc' = [callPc EXCEPT ![c] = UnlockEntry]
  /\ callAfterFailure' = [callAfterFailure EXCEPT ![c] =
                             \E d \in Calls : callOut[d].unlock = "false"]
  /\ UNCHANGED <<callKey, callOut, callIssued, callFailed, callHttp, callAnswer>>
  /\ UNCHANGED <<sessionVars, processes>>
  /\ UNCHANGED <<reqVars, botVars, storeVars, now, pickVars, scopeVars, regVars>>
CallStart(c) ==
  /\ callPc[c] = "idle"
  /\ \E in \in LookupInputs : callArgs' = [callArgs EXCEPT ![c] = in]
  /\ callPc' = [callPc EXCEPT ![c] = UnlockEntry]
  /\ callAfterFailure' = [callAfterFailure EXCEPT ![c] =
                             \E d \in Calls : callOut[d].unlock = "false"]
  /\ UNCHANGED <<callKey, callOut, callIssued, callFailed, callHttp, callAnswer>>
  /\ UNCHANGED <<sessionVars, processes>>
  /\ UNCHANGED <<reqVars, botVars, storeVars, now, pickVars, scopeVars, regVars>>

\* login(): await self._run_command(["bw", "config", "server", url])
ConfigCmd(c) ==
  /\ callPc[c] = "config"
  /\ \E out \in Outcomes :
       LET ok == out = "ok"
       IN /\ Ran(c, "config", ok)
          /\ Leaves("config", out)
          /\ IF ok THEN UnlockGoesOn(c, "status") ELSE UnlockReturnsFalse(c)
  /\ UNCHANGED <<callArgs, callAfterFailure, callHttp, sessionVars>>
  /\ UNCHANGED <<reqVars, botVars, storeVars, now, pickVars, scopeVars, regVars>>

\* login(): await self._run_command(["bw", "status"]) and the branch on the
\* status it reports
StatusCmd(c) ==
  /\ callPc[c] = "status"
  /\ \E out \in Outcomes, st \in Statuses :
       LET ok == out = "ok"
           next == IF ok THEN AfterStatus(st, session_key) ELSE "return_false"
       IN /\ Ran(c, "status", ok /\ st # "unknown")
          /\ Leaves("status", out)
          /\ logged_in' = (logged_in \/ (ok /\ st \in {"locked", "unlocked"}))
          /\ IF next = "return_false" THEN UnlockReturnsFalse(c) ELSE UnlockGoesOn(c, next)
  /\ UNCHANGED <<callArgs, callAfterFailure, callHttp, session_key, nextKey>>
  /\ UNCHANGED <<reqVars, botVars, storeVars, now, pickVars, scopeVars, regVars>>

\* login(): `bw login --raw <email> <password>` prints the session key;
\* unlock() then probes it.  The arguments are read off `settings` first: an
\* AttributeError there is caught like a failing command, and no process runs.
LoginCmd(c) ==
  /\ callPc[c] = "login"
  /\ IF ~SettingsResolve(LoginSettings)
     THEN /\ callFailed' = [callFailed EXCEPT ![c] = @ \cup {"login"}]
          /\ UnlockReturnsFalse(c)
          /\ UNCHANGED <<callIssued, sessionVars, processes>>
     ELSE \E out \in Outcomes :
            LET ok == out = "ok"
            IN /\ Ran(c, "login", ok)
               /\ Leaves("login", out)
               /\ IF ok
                  THEN /\ nextKey \in Keys
                       /\ session_key' = nextKey
                       /\ nextKey' = nextKey + 1
                       /\ logged_in' = TRUE
                       /\ UnlockGoesOn(c, AfterLogin(nextKey))
                  ELSE /\ UnlockReturnsFalse(c)
                       /\ UNCHANGED sessionVars
  /\ UNCHANGED <<callArgs, callAfterFailure, callHttp>>
  /\ UNCHANGED <<reqVars, botVars, storeVars, now, pickVars, scopeVars, regVars>>

\* unlock(): the liveness probe `bw sync --session <key>`; a failure clears
\* the cached key and goes on to _do_unlock()
SyncCmd(c) ==
  /\ callPc[c] = "sync"
  /\ \E out \in Outcomes :
       LET ok == out = "ok"
       IN /\ Ran(c, "sync", ok)
          /\ Leaves("sync", out)
          /\ session_key' = KeyAfterProbe(ok, session_key)
          /\ IF ok THEN UnlockReturnsTrue(c, session_key)
             ELSE IF AfterProbeFailure = "unlock" THEN UnlockGoesOn(c, "unlock")
             ELSE UnlockReturnsFalse(c)
  /\ UNCHANGED <<callArgs, callAfterFailure, callHttp, logged_in, nextKey>>
  /\ UNCHANGED <<reqVars, botVars, storeVars, now, pickVars, scopeVars, regVars>>

\* _do_unlock(): `bw unlock --raw` prints a fresh session key.  Called from
\* login() (status unlocked, no key cached) unlock() goes on to probe the key.
UnlockCmd(c) ==
  /\ callPc[c] \in {"unlock", "unlock_in_login"}
  /\ \E out \in Outcomes :
       LET ok == out = "ok"
       IN /\ Ran(c, "unlock", ok)
          /\ Leaves("unlock", out)
          /\ IF ok
             THEN /\ nextKey \in Keys
                  /\ session_key' = nextKey
                  /\ nextKey' = nextKey + 1
                  /\ IF callPc[c] = "unlock_in_login"
                     THEN UnlockGoesOn(c, AfterLogin(nextKey))
                     ELSE UnlockReturnsTrue(c, nextKey)
             ELSE /\ UnlockReturnsFalse(c)
                  /\ UNCHANGED <<session_key, nextKey>>
  /\ UNCHANGED <<callArgs, callAfterFailure, callHttp, logged_in>>
  /\ UNCHANGED <<reqVars, botVars, storeVars, now, pickVars, scopeVars, regVars>>

\* get_credential: `bw list items --search <service> --session <key>` and the
\* rest of the function.  A None among the arguments raises TypeError; that
\* and a failing command are caught by `except Exception`, which returns None.
ListCmd(c) ==
  /\ callPc[c] = "list"
  /\ callHttp[c] = NoHttp
  /\ \E out \in Outcomes :
       LET ok == out = "ok"
           ran == callKey[c] # NoKey
       IN /\ callIssued' = [callIssued EXCEPT ![c] = IF ran THEN @ \cup {"list"} ELSE @]
          /\ callFailed' = [callFailed EXCEPT ![c] = IF ran /\ ok THEN @ ELSE @ \cup {"list"}]
          /\ IF ran THEN Leaves("list", out) ELSE UNCHANGED processes
          /\ callOut' = [callOut EXCEPT ![c].credential =
                           IF ran /\ ok
                           THEN Lookup(callArgs[c].service, callArgs[c].scope)
                           ELSE NotFound]
  /\ callPc' = [callPc EXCEPT ![c] = "done"]
  /\ UNCHANGED <<callArgs, callKey, callAfterFailure, callHttp, callAnswer, sessionVars>>
  /\ UNCHANGED <<reqVars, botVars, storeVars, now, pickVars, scopeVars, regVars>>

\* logout(): `bw logout`, then the session is forgotten; a failing command
\* leaves it as it is
Logout ==
  /\ \A c \in Calls : callPc[c] \in {"idle", "done"}
  /\ \E out \in Outcomes :
       LET ok == out = "ok"
       IN /\ session_key' = IF ok THEN NoKey ELSE session_key
          /\ logged_in' = IF ok THEN FALSE ELSE logged_in
          /\ Leaves("logout", out)
  /\ UNCHANGED <<nextKey, callVars>>
  /\ UNCHANGED <<reqVars, botVars, storeVars, now, pickVars, scopeVars, regVars>>

\* ------------------------------------------------ GET /health, GET /status
Endpoints == {"/health", "/status"}
\* request.headers.get("X-API-Key"): absent, not the configured key, or it
ApiKeys == {"missing", "wrong", "right"}

\* verify_api_key: 401 unless the header is there and equals morpheus_api_key
VerifyApiKey(key) == key = "right"

\* the endpoints declared with Depends(verify_api_key)
RequiresApiKey(endpoint) == endpoint \in {"/status", "/request", "/pickup"}

\* the names of the items that carry a scope or scopes field
ServiceNames ==
  {VaultItems[i].name : i \in {j \in 1..Len(VaultItems) :
     \E k \in 1..Len(VaultItems[j].fields) :
        Lower(VaultItems[j].fields[k].name) \in {k_scopes, k_scope}}}

\* the endpoint is called: the key check where it is declared, then
\* list_services is entered and calls unlock()
IntrospectStart(c) ==
  /\ callPc[c] = "idle"
  /\ \E endpoint \in Endpoints, key \in ApiKeys :
       /\ callHttp' = [callHttp EXCEPT ![c] = [endpoint |-> endpoint, api_key |-> key]]
       /\ IF RequiresApiKey(endpoint) /\ ~VerifyApiKey(key)
          THEN /\ callPc' = [callPc EXCEPT ![c] = "done"]
               /\ callAnswer' = [callAnswer EXCEPT ![c] =
                                    [status |-> 401, vault |-> "none", services |-> {}]]
          ELSE /\ callPc' = [callPc EXCEPT ![c] = UnlockEntry]
               /\ UNCHANGED callAnswer
  /\ UNCHANGED <<callArgs, callKey, callOut, callIssued, callFailed, callAfterFailure>>
  /\ UNCHANGED <<sessionVars, processes>>
  /\ UNCHANGED <<reqVars, botVars, storeVars, now, pickVars, scopeVars, regVars>>

\* list_services: `bw list items --session <key>` and the rest of the
\* function; a None key (TypeError) and a failing command give []
ServicesListCmd(c) ==
  /\ callPc[c] = "list"
  /\ callHttp[c] # NoHttp
  /\ \E out \in Outcomes :
       LET ok == out = "ok"
           ran == callKey[c] # NoKey
       IN /\ callIssued' = [callIssued EXCEPT ![c] = IF ran THEN @ \cup {"list"} ELSE @]
          /\ callFailed' = [callFailed EXCEPT ![c] = IF ran /\ ok THEN @ ELSE @ \cup {"list"}]
          /\ IF ran THEN Leaves("list", out) ELSE UNCHANGED processes
          /\ callAnswer' = [callAnswer EXCEPT ![c] =
                               ServicesAnswer(IF ran /\ ok THEN ServiceNames ELSE {})]
  /\ callPc' = [callPc EXCEPT ![c] = "done"]
  /\ UNCHANGED <<callArgs, callKey, callOut, callAfterFailure, callHttp, sessionVars>>
  /\ UNCHANGED <<reqVars, botVars, storeVars, now, pickVars, scopeVars, regVars>>

NextIntrospect ==
  \/ \E c \in Calls : IntrospectStart(c)
  \/ \E c \in Calls : ConfigCmd(c)
  \/ \E c \in Calls : StatusCmd(c)
  \/ \E c \in Calls : LoginCmd(c)
  \/ \E c \in Calls : SyncCmd(c)
  \/ \E c \in Calls : UnlockCmd(c)
  \/ \E c \in Calls : ServicesListCmd(c)
  \/ Logout

SpecIntrospect == Init /\ [][NextIntrospect]_vars

NextVault ==
  \/ \E c \in Calls : CallStart(c)
  \/ \E c \in Calls : ConfigCmd(c)
  \/ \E c \in Calls : StatusCmd(c)
  \/ \E c \in Calls : LoginCmd(c)
  \/ \E c \in Calls : SyncCmd(c)
  \/ \E c \in Calls : UnlockCmd(c)
  \/ \E c \in Calls : ListCmd(c)
  \/ Logout

SpecVault == Init /\ [][NextVault]_vars


\* --------------------------------------------- the scope check on its own
\* The scope check of get_credential applied to one custom field and one
\* requested scope, over all short strings of the characters below.
ScopeChars == {"r", "W", " ", ","}
RequestChars == {"R", "w", " ", ","}

SeqsUpTo(S, n) == UNION {[1..k -> S] : k \in 0..n}

\* field.get("value", ""): any string
FieldValues == SeqsUpTo(ScopeChars, MaxFieldLen)
\* request_data.scope: min_length=1
ScopeInputs == SeqsUpTo(RequestChars, MaxScopeLen) \ {<<>>}
\* the names under which a field counts as the scope list
ScopeFieldNames == {k_scope, k_scopes, <<"S","c","o","p","e","s">>}

ScopeCall ==
  /\ scopeAuth = "none"
  /\ \E name \in ScopeFieldNames, value \in FieldValues, scope \in ScopeInputs :
       /\ scopeField' = [name |-> name, value |-> value]
       /\ scopeReq' = scope
       /\ scopeAuth' = IF ScopeCheck(scope, AllowedScopes(<<[name |-> name, value |-> value]>>))
                       THEN "allowed" ELSE "not_found"
  /\ UNCHANGED <<reqVars, botVars, storeVars, now, pickVars, vaultVars, regVars>>

SpecScope == Init /\ [][ScopeCall]_vars

\* ------------------------------------- the registration taken on its own
\* request_approval registers the future it has made under the id of the
\* prompt: future = asyncio.Future(); self.pending_requests[key] = future.
\* The statement is applied to every registry and every key; in a run the
\* key is the id Discord gave the prompt just sent (AddReaction2).
MsgIds == 1..MaxMsgIds
Futures == 1..MaxFutures

\* the registries pending_requests can be: every entry holds a future of its own
Registries ==
  {d \in UNION {[K -> Futures] : K \in SUBSET MsgIds} :
     \A j, k \in DOMAIN d : j # k => d[j] # d[k]}

\* self.pending_requests[key] = future: a dict assignment, which raises nothing
Register(registry, key, fut) ==
  [after |-> Put(registry, key, fut), outcome |-> "stored"]

RegisterCall ==
  /\ registration.outcome = "none"
  /\ \E registry \in Registries, key \in MsgIds, fut \in Futures :
       /\ \A k \in DOMAIN registry : registry[k] # fut
       /\ registration' = [before |-> registry, key |-> key, future |-> fut,
                           after |-> Register(registry, key, fut).after,
                           outcome |-> Register(registry, key, fut).outcome]
  /\ UNCHANGED <<reqVars, botVars, storeVars, now, pickVars, vaultVars, scopeVars>>

SpecRegistry == Init /\ [][RegisterCall]_vars

\* ===================================================================== claims
Done(r) == reqPc[r] = "done"
IssuedTo(r) == {t \in Tokens : issuedBy[t] = r}

C2_StoreOnlyApproved ==
  /\ \A t \in DOMAIN credential_store : issuedBy[t] \in Reqs
  /\ \A r \in Reqs :
       /\ IssuedTo(r) # {} =>
            /\ credential[r].found
            /\ \/ AutoApprove(credential[r].data)
               \/ acceptedInTime[r] /\ observed[r] = <<"true">>
       /\ (Done(r) /\ (~credential[r].found \/ observed[r] \in {<<"false">>, <<"timeout">>}))
            => IssuedTo(r) = {}

\* a request whose lookup succeeded ended after the approver rejected it or
\* the wait timed out, and no token was stored for it
C2_Witness ==
  \E r \in Reqs :
    /\ Done(r)
    /\ credential[r].found /\ ~AutoApprove(credential[r].data)
    /\ observed[r] \in {<<"false">>, <<"timeout">>}
    /\ IssuedTo(r) = {}
    /\ credential_store = EmptyDict

\* C3: a waiting request observes at most one resolution, and a reaction that
\* arrives once the timeout has fired is a silent no-op: it raises no error and
\* changes neither the registry, the future nor any outcome.
C3_SingleResolutionLateNoop ==
  [][/\ \A r \in Reqs : Len(observed'[r]) <= 1
     /\ \A m \in Reqs, u \in Users, e \in Emojis :
          (future[m] = "cancelled" /\ ReactionAdd(m, u, e)) =>
             /\ reaction_errors' = reaction_errors
             /\ UNCHANGED <<pending_requests, future, approved, response,
                            credential_store>>]_vars

\* C4: a request for a credential whose auto_approve field is "true" and whose
\* scopes allow the requested scope ends approved with a pickup token held by
\* the store, and no approval prompt was sent for it.
C4_AutoApproveIssuesToken ==
  \A r \in Reqs :
    (Done(r) /\ credential[r].found /\ AutoApprove(credential[r].data)) =>
       /\ response[r].kind = "approved"
       /\ response[r].token \in DOMAIN credential_store
       /\ ~message[r]

\* C5: a request without auto-approve that the approver accepted while the
\* prompt was up and the timeout had not fired (no Discord call failing) ends
\* approved with a pickup token held by the store.
C5_AcceptInTimeApproves ==
  \A r \in Reqs :
    (/\ Done(r)
     /\ credential[r].found /\ ~AutoApprove(credential[r].data)
     /\ acceptedInTime[r] /\ ~faulted[r]) =>
       /\ response[r].kind = "approved"
       /\ response[r].token \in DOMAIN credential_store

\* C6: a request whose wait timed out (no Discord call failing) ends with
\* approved=false and its pending approval out of the registry, and an accept
\* or reject that arrives
\* after the timeout changes neither the registry, the pickup store nor any
\* outcome.
C6_TimeoutDenies ==
  [][/\ \A r \in Reqs :
          (reqPc'[r] = "done" /\ observed'[r] = <<"timeout">> /\ ~faulted'[r]) =>
             /\ response'[r].kind = "denied"
             /\ r \notin pending_requests'
     /\ \A m \in Reqs, u \in Users, e \in {"check", "cross"} :
          (future[m] = "cancelled" /\ ReactionAdd(m, u, e)) =>
             UNCHANGED <<pending_requests, credential_store, approved, response>>]_vars

\* C7: a pickup of a token whose entry is older than the TTL answers 404,
\* whether or not the store was accessed since the entry was written.
C7_ExpiredUnredeemable ==
  [][\A p \in Picks :
       (/\ PickupRun(p)
        /\ pickTok[p] \in DOMAIN credential_store
        /\ now - credential_store[pickTok[p]].created > PickupTTL)
          => pickResult'[p].status = 404]_vars

\* C8: a reaction by anyone but the configured approver, or by a bot account,
\* raises no error and leaves the registry and every future as they were,
\* whatever the emoji and the message.
C8_OutsiderIgnored ==
  [][\/ UNCHANGED <<pending_requests, future, reaction_errors>>
     \/ ~\E m \in Reqs \cup {OtherMessage}, u \in Users, e \in Emojis :
           (u.bot \/ u.id # approver_id) /\ ReactionAdd(m, u, e)]_vars

\* an outsider reacted to a registered prompt; every prompt is still
\* registered and unresolved
C8_Witness ==
  /\ outsiderReacted
  /\ pending_requests = Handlers
  /\ \A r \in Handlers : future[r] = "pending" /\ reqPc[r] = "waiting"

\* the requested scope, lower-cased, is not among the allowed scopes of the
\* item the service names
ScopeNotAllowed(r) ==
  /\ reqPc[r] # "idle"
  /\ LET exact == ExactMatches(VaultItems, reqArgs[r].service)
     IN /\ exact # <<>>
        /\ Lower(reqArgs[r].scope) \notin SeqRange(AllowedScopes(exact[1].fields))

\* C9: a request for a scope the credential does not allow ends with
\* approved=false; no prompt is sent and no pending approval registered for it.
C9_ScopeMismatchNoPrompt ==
  \A r \in Reqs :
    ScopeNotAllowed(r) =>
       /\ ~message[r]
       /\ r \notin pending_requests
       /\ future[r] = "none"
       /\ reqPc[r] \in {"get_credential", "done"}
       /\ Done(r) => response[r].kind = "not_found"

C9_Witness ==
  \E r \in Reqs :
    /\ ScopeNotAllowed(r)
    /\ Done(r)
    /\ response[r].kind = "not_found"
    /\ credential_store = EmptyDict

\* C10: a request that has ended made exactly one log_request call.
C10_ExactlyOneLog ==
  \A r \in Reqs : Done(r) => Len(log_calls[r]) = 1

\* C11: a failing audit-log call never alters the outcome.  A request whose
\* lookup succeeded ends with the decision it reached (auto-approval or the
\* value request_approval returned): approved with a pickup token when that
\* decision was to approve, denied without one otherwise, whatever became of
\* its log_request call.
C11_LogFailureSwallowed ==
  \A r \in Reqs :
    (Done(r) /\ credential[r].found) =>
       /\ response[r].kind = (IF approved[r] THEN "approved" ELSE "denied")
       /\ (response[r].token \in Tokens) <=> approved[r]

\* C14: a request whose lookup ended on a vault failure (login or unlock
\* failed, the tool unreachable) is answered approved=false by the handler
\* itself: no error answer, no prompt, no pending approval, no pickup token.
C14_VaultFailureDenies ==
  \A r \in Reqs :
    vaultFailed[r] =>
       /\ Done(r)
       /\ ~credential[r].found
       /\ response[r].status = 200 /\ response[r].kind = "not_found"
       /\ response[r].token = NoToken
       /\ ~message[r] /\ r \notin pending_requests /\ future[r] = "none"
       /\ IssuedTo(r) = {}

\* the vault failed on a request for a credential the vault holds
C14_Witness ==
  \E r \in Reqs :
    /\ vaultFailed[r]
    /\ Lookup(reqArgs[r].service, reqArgs[r].scope).found
    /\ Done(r)
    /\ response[r].kind = "not_found"

\* no item of the vault carries the service name
ServiceMissing(r) ==
  /\ reqPc[r] # "idle"
  /\ ExactMatches(VaultItems, reqArgs[r].service) = <<>>

\* what the caller and the Discord channels see of a request
Observable(r) ==
  [response |-> response[r], prompt |-> message[r], log |-> log_calls[r],
   tokens |-> IssuedTo(r)]

\* C15: a request naming no service of the vault and a request naming a
\* service with a scope it does not allow end alike: each with the same
\* answer (approved=false, the one not-found message, no pickup token), no
\* prompt and no audit-log entry, so any two of them are indistinguishable.
C15_NotFoundIndistinguishable ==
  /\ \A r \in Reqs :
       (Done(r) /\ (ServiceMissing(r) \/ ScopeNotAllowed(r))) =>
          Observable(r) = [response |-> [status |-> 200, kind |-> "not_found",
                                         token |-> NoToken],
                           prompt |-> FALSE, log |-> <<>>, tokens |-> {}]
  /\ \A r, q \in Reqs :
       (Done(r) /\ Done(q) /\ ServiceMissing(r) /\ ScopeNotAllowed(q)) =>
          Observable(r) = Observable(q)

\* a request for a service the vault does not hold has ended, the vault
\* having answered
C15_Witness ==
  \E r \in Reqs :
    /\ Done(r)
    /\ ServiceMissing(r)
    /\ ~vaultFailed[r]
    /\ response[r].kind = "not_found"
    /\ log_calls[r] = <<>>

\* C20: an entry leaves the registry only when the approver's accept or
\* reject resolves its future or when its wait has timed out, one of the two
\* per request; nothing removes an entry whose future is unresolved, and once
\* the request has returned its entry is out of the registry.
C20_RegistryLifecycle ==
  [][\A r \in Reqs :
       /\ (r \in pending_requests /\ r \notin pending_requests') =>
             \/ future[r] = "pending" /\ future'[r] \in {"true", "false"}
             \/ future[r] = "cancelled" /\ observed[r] = <<"timeout">>
       /\ reqPc'[r] = "done" => r \notin pending_requests']_vars

\* unlock() has returned to the call
UnlockReturned(c) == callOut[c].unlock # "none"
SessionCmds == {"config", "status", "login", "sync", "unlock"}

\* C12: when the probe of the cached key fails, unlock() drops the key and
\* goes on to the unlock command; if that and every other command of the call
\* answer, unlock() returns True, the list command is run with a session key
\* and get_credential returns the credential, not None.
C12_ProbeFailureReunlocks ==
  /\ [][\A c \in Calls :
          (SyncCmd(c) /\ "sync" \in callFailed'[c]) =>
             /\ session_key' = NoKey
             /\ callPc'[c] = "unlock"]_vars
  /\ [](\A c \in Calls :
          (callPc[c] = "done" /\ callFailed[c] = {"sync"}) =>
             /\ callOut[c].unlock = "true"
             /\ {"unlock", "list"} \subseteq callIssued[c]
             /\ callKey[c] # NoKey
             /\ callOut[c].credential.found
             /\ callOut[c].credential = Lookup(callArgs[c].service, callArgs[c].scope))

\* a call that found a key cached saw its probe fail, unlocked again and
\* returned the credential
C12_Witness ==
  \E c \in Calls :
    /\ callPc[c] = "done"
    /\ callIssued[c] = {"sync", "unlock", "list"}
    /\ callFailed[c] = {"sync"}
    /\ callOut[c].unlock = "true"
    /\ callOut[c].credential.found

\* C13: no failure is remembered.  Whatever the session state a call starts
\* from, and whatever failed before, a call in which every command the vault
\* tool is given (config, status, login, probe, unlock) answers gets True
\* from unlock().
C13_FailureNotCached ==
  \A c \in Calls :
    (UnlockReturned(c) /\ callFailed[c] \cap callIssued[c] \cap SessionCmds = {}) =>
       callOut[c].unlock = "true"

\* C19: a call that finds the session logged in and a key cached probes the
\* key and runs nothing before that; when the probe answers, unlock() returns
\* True with the key and the logged-in flag as they were and no login or
\* unlock command run.  Within unlock() the key is dropped only by a failed
\* probe (logout() drops it at shutdown).
C19_LiveSessionReused ==
  /\ [][\A c \in Calls :
          /\ (CallStart(c) /\ logged_in /\ session_key # NoKey) =>
                /\ callPc'[c] = "sync"
                /\ UNCHANGED sessionVars
          /\ (SyncCmd(c) /\ "sync" \notin callFailed'[c]) =>
                /\ UNCHANGED sessionVars
                /\ callOut'[c].unlock = "true"
                /\ callKey'[c] = session_key]_vars
  /\ [](\A c \in Calls :
          (/\ UnlockReturned(c)
           /\ "config" \notin callIssued[c]
           /\ "sync" \in callIssued[c] /\ "sync" \notin callFailed[c]) =>
             /\ callOut[c].unlock = "true"
             /\ callIssued[c] \cap {"login", "unlock"} = {})
  /\ [][(session_key # NoKey /\ session_key' = NoKey) =>
          \/ \E c \in Calls : SyncCmd(c) /\ "sync" \in callFailed'[c]
          \/ Logout]_vars

\* one call set the session up; a later call found it live, probed it and
\* listed with the same key, which is still the cached one
C19_Witness ==
  \E c, d \in Calls :
    /\ c # d
    /\ callPc[c] = "done" /\ callPc[d] = "done"
    /\ "config" \in callIssued[d]
    /\ callIssued[c] = {"sync", "list"} /\ callFailed[c] = {}
    /\ callKey[c] = callKey[d]
    /\ session_key = callKey[c] /\ session_key # NoKey
    /\ logged_in

\* C16: every access to the pickup store sweeps it: right after a store write
\* and right after any /pickup call, answered or 404, the store holds no
\* entry older than the TTL.
C16_EveryAccessSweeps ==
  [][(StoreWrite \/ \E p \in Picks : PickupRun(p)) =>
        \A t \in DOMAIN credential_store' :
           now' - credential_store'[t].created <= PickupTTL]_vars

\* the pieces of a string between its commas, by the positions of the commas
Elements(s) ==
  LET cuts == {0, Len(s) + 1} \cup {i \in 1..Len(s) : s[i] = ","}
      neighbours == {x \in cuts \X cuts :
                       x[1] < x[2] /\ \A i \in cuts : ~(x[1] < i /\ i < x[2])}
  IN {SubSeq(s, x[1] + 1, x[2] - 1) : x \in neighbours}

\* a string without the blanks at its two ends
Trimmed(e) ==
  LET inked == {i \in 1..Len(e) : e[i] # " "}
  IN IF inked = {} THEN <<>>
     ELSE SubSeq(e, CHOOSE i \in inked : \A j \in inked : i <= j,
                    CHOOSE i \in inked : \A j \in inked : j <= i)

\* C17: the scope check allows a requested scope exactly when its lower-cased
\* form is the trimmed, lower-cased form of some non-empty piece between the
\* commas of the scope / scopes field (whatever the case of the field's
\* name); otherwise the lookup is not-found.
C17_ScopeMatching ==
  scopeAuth # "none" =>
     /\ scopeAuth \in {"allowed", "not_found"}
     /\ (scopeAuth = "allowed") <=>
           \E e \in Elements(scopeField.value) :
              /\ e # <<>>
              /\ Lower(Trimmed(e)) = Lower(scopeReq)

\* allowed "r, W" under a field named Scopes, requested "w": allowed
C17_Witness ==
  /\ scopeAuth = "allowed"
  /\ scopeField = [name |-> <<"S","c","o","p","e","s">>,
                   value |-> <<"r", ",", " ", "W">>]
  /\ scopeReq = <<"w">>

\* the names of the control fields, lower-cased
ControlNames == {<<"s","c","o","p","e">>, <<"s","c","o","p","e","s">>,
                 <<"a","u","t","o","_","a","p","p","r","o","v","e">>}

\* a payload built for (service, scope) holds nothing of the item's control
\* fields and all of its other custom fields
PayloadClean(payload, service, scope) ==
  LET fields == ExactMatches(VaultItems, service)[1].fields
  IN /\ k_auto_approve \notin DOMAIN payload
     /\ \A i \in 1..Len(fields) :
          LET f == fields[i]
          IN IF Lower(f.name) \in ControlNames
             THEN f.name \in DOMAIN payload =>
                     (f.name = k_scope /\ payload[k_scope] = scope)
             ELSE f.name \in DOMAIN payload /\ payload[f.name] = f.value

\* C18: the payload of every store entry, and the payload a redeem returns,
\* holds no control field of the vault item (scope, scopes, auto_approve in
\* any case: the payload's own "scope" is the scope requested) and holds every
\* other custom field of the item under its name.
C18_NoControlFieldsInPayload ==
  /\ [](\A t \in DOMAIN credential_store :
          PayloadClean(credential_store[t].credential,
                       credential_store[t].service, credential_store[t].scope))
  /\ [][\A p \in Picks :
          (PickupRun(p) /\ pickTok[p] \in DOMAIN credential_store) =>
             PayloadClean(pickResult'[p].credential,
                          credential_store[pickTok[p]].service,
                          credential_store[pickTok[p]].scope)]_vars

\* the credential of an item with an auto_approve field was redeemed, and the
\* store holds one of an item with another custom field
C18_Witness ==
  /\ \E p \in Picks :
       /\ pickResult[p].status = 200
       /\ pickResult[p].credential[k_name] \in {<<"c","i">>, <<"d","b">>}
  /\ \E t \in DOMAIN credential_store :
       <<"e","n","v">> \in DOMAIN credential_store[t].credential

\* C21: registering under a key that already holds a pending approval fails
\* and leaves the registry as it was, the entry of that key with the future
\* it held; the entry is never replaced.
C21_DuplicateRegistrationFails ==
  (registration.outcome # "none" /\ registration.key \in DOMAIN registration.before) =>
     /\ registration.outcome = "failed"
     /\ registration.after = registration.before

\* the step is one of an endpoint's list_services call
IntrospectStep(c) == callHttp'[c] # NoHttp /\ callPc'[c] # callPc[c]

\* C22: GET /health and GET /status only read.  No step of either handler
\* changes the cached session key, the logged-in flag, the registry or the
\* pickup store, and neither runs a login or an unlock command.
C22_IntrospectionReadOnly ==
  /\ [][\A c \in Calls :
          IntrospectStep(c) =>
             UNCHANGED <<session_key, logged_in, pending_requests, credential_store>>]_vars
  /\ [](\A c \in Calls :
          callHttp[c] # NoHttp => callIssued[c] \cap {"login", "unlock"} = {})

\* C23: a call that carries no X-API-Key, or a wrong one, has no effect: no
\* step of its handler changes the pickup store, the registry, the cached
\* session key or the logged-in flag, and none presents an approval prompt.
C23_ApiKeyGuardsMutations ==
  [][\A c \in Calls :
       (IntrospectStep(c) /\ ~VerifyApiKey(callHttp'[c].api_key)) =>
          UNCHANGED <<credential_store, pending_requests, message,
                      session_key, logged_in>>]_vars

\* request_approval has returned to the handler, which has gone on
Returned(r) == reqPc[r] \in {"log", "except_log", "done"}

\* C24: a request that waits for its approval returns.  The wait is ended by
\* the resolved future or by the deadline, by nothing else, and only once;
\* request_approval then returns, and so does the handler.  The value is True
\* only if the wait ended on the approver's accept, and False when it ended
\* on a reject or on the deadline, which is what happens when neither an
\* accept nor a reject has resolved the future.
C24_WaitReturns ==
  /\ \A r \in Handlers : (reqPc[r] = "waiting") ~> Returned(r)
  /\ \A r \in Handlers : (reqPc[r] = "waiting") ~> Done(r)
  /\ [][\A r \in Handlers :
          (reqPc[r] = "waiting" /\ reqPc'[r] # "waiting") =>
             \/ WaitReturns(r) /\ future[r] \in {"true", "false"}
             \/ WaitTimesOut(r) /\ future[r] = "pending"]_vars
  /\ [](\A r \in Handlers :
          (Returned(r) /\ future[r] # "none") =>
             /\ observed[r] \in {<<"true">>, <<"false">>, <<"timeout">>}
             /\ approved[r] => (observed[r] = <<"true">> /\ acceptedInTime[r])
             /\ future[r] = "false" => (observed[r] = <<"false">> /\ ~approved[r])
             /\ future[r] = "cancelled" => (observed[r] = <<"timeout">> /\ ~approved[r]))

\* a request waited, nobody accepted or rejected, the deadline ended the wait
\* and the request returned
C24_Witness ==
  \E r \in Handlers :
    /\ Done(r)
    /\ observed[r] = <<"timeout">>
    /\ future[r] = "cancelled"
    /\ ~approved[r]
    /\ ~acceptedInTime[r]

\* C25: a vault command that runs past its timeout is killed and counts as a
\* failure of its step.  No process of a timed-out command is left running,
\* and a call one of whose commands failed or timed out (the probe apart,
\* after which unlock() goes on to unlock) reports failure: unlock() False
\* or no credential, never an exception.
C25_TimeoutKillsAndFails ==
  /\ processes = {}
  /\ \A c \in Calls :
       (callPc[c] = "done" /\ callFailed[c] \ {"sync"} # {}) =>
          \/ callOut[c].unlock = "false"
          \/ callOut[c].unlock = "true" /\ ~callOut[c].credential.found

\* the call is inside unlock(): in login() or at the probe or unlock command
Establishing(c) == callPc[c] \in {"config", "status", "login", "sync", "unlock",
                                  "unlock_in_login"}

\* C26: the lookups are not serialized on the session.  A lookup enters
\* unlock() whatever the others are doing and is never made to wait for one
\* that is establishing the session: finding nobody logged in it starts a
\* login of its own, and at the unlock command it runs it.  So two lookups
\* that both start without a session can each run the unlock command (the
\* witness).
C26_SessionNotSerialized ==
  /\ [](\A c \in Calls :
          /\ callPc[c] = "idle" => ENABLED CallStart(c)
          /\ callPc[c] \in {"unlock", "unlock_in_login"} => ENABLED UnlockCmd(c))
  /\ [][\A c \in Calls :
          (CallStart(c) /\ ~logged_in /\ \E d \in Calls \ {c} : Establishing(d)) =>
             callPc'[c] = "config"]_vars

\* two lookups in flight at once, both begun with nobody logged in: each has
\* run config, status and the unlock command, and each got a key of its own
C26_Witness ==
  \E c, d \in Calls :
    /\ c # d
    /\ callPc[c] = "list" /\ callPc[d] = "list"
    /\ {"config", "status", "unlock"} \subseteq callIssued[c]
    /\ {"config", "status", "unlock"} \subseteq callIssued[d]
    /\ callFailed[c] = {} /\ callFailed[d] = {}
    /\ callKey[c] # NoKey /\ callKey[d] # NoKey /\ callKey[c] # callKey[d]

\* C27: whenever unlock() returns True to a lookup the cached session key is
\* not None, so the list command the lookup builds next carries a key,
\* whatever the other lookups do in between.
C27_SuccessImpliesKey ==
  [][\A c \in Calls :
       (callOut[c].unlock = "none" /\ callOut'[c].unlock = "true") =>
          /\ session_key' # NoKey
          /\ callKey'[c] # NoKey]_vars

\* what the registry, the bot and the handler hold of one request
ApprovalState(r) ==
  [registered |-> r \in pending_requests, future |-> future[r],
   observed |-> observed[r], approved |-> approved[r], pc |-> reqPc[r],
   response |-> response[r]]

\* C28: pending approvals do not touch each other.  A reaction to the prompt
\* of one request (a step that changes anything of the approvals at all)
\* removes no entry but that request's and leaves the entry, the future and
\* the outcome of every other request as they were; and a request returns
\* True only on the approver's accept of its own prompt.
C28_ApprovalsIndependent ==
  /\ [][(\E b \in Reqs : ApprovalState(b)' # ApprovalState(b)) =>
          \A a \in Reqs, u \in Users, e \in Emojis :
            ReactionAdd(a, u, e) =>
               /\ pending_requests \ pending_requests' \subseteq {a}
               /\ \A b \in Reqs \ {a} : ApprovalState(b)' = ApprovalState(b)]_vars
  /\ [](\A b \in Reqs :
          (reqPc[b] = "log" /\ approved[b]) =>
             (observed[b] = <<"true">> /\ acceptedInTime[b]))

\* the approver has accepted one prompt, whose entry is gone and whose wait
\* ended approved, while another request is still registered and waiting on
\* its unresolved future
C28_Witness ==
  \E a, b \in Reqs :
    /\ a # b
    /\ future[a] = "true" /\ a \notin pending_requests
    /\ reqPc[a] = "log" /\ approved[a]
    /\ reqPc[b] = "waiting" /\ future[b] = "pending" /\ b \in pending_requests

\* C29: the sweep takes expired entries only.  A /pickup call leaves every
\* entry but the redeemed one that is at most 300 seconds old in the store
\* as it was, payload included, so it can still be redeemed; what it removes
\* besides the redeemed entry is older than that; and a call with a token
\* the store does not hold removes nothing.
C29_SweepOnlyExpired ==
  [][\A p \in Picks :
       PickupRun(p) =>
          /\ \A t \in (DOMAIN credential_store) \ {pickTok[p]} :
                IF now - credential_store[t].created <= PickupTTL
                THEN /\ t \in DOMAIN credential_store'
                     /\ credential_store'[t] = credential_store[t]
                ELSE pickTok[p] \in DOMAIN credential_store =>
                        t \notin DOMAIN credential_store'
          /\ pickTok[p] \notin DOMAIN credential_store =>
                credential_store' = credential_store]_vars

\* a token was redeemed at the last reading of the clock, and an entry that
\* is exactly 300 seconds old is still in the store
C29_Witness ==
  /\ now = MaxTime * TimeUnit
  /\ \E p \in Picks, t \in DOMAIN credential_store :
       /\ pickPc[p] = "done"
       /\ pickResult[p].status = 200
       /\ pickTok[p] = nextToken - 1
       /\ now - credential_store[t].created = TimeUnit
       /\ TimeUnit >= PickupTTL

====
